---- MODULE Spec2Model ----
(***************************************************************************)
(* The health endpoint of src/src/handlers/health.rs: the synchronous      *)
(* `health` and the async `health_handler`, both returning a &'static str, *)
(* served to a bounded number of inbound requests in any interleaving.     *)
(* Strings are sequences of one-character strings, so that the spaced and  *)
(* the compact JSON text are different values.                             *)
(***************************************************************************)
EXTENDS Naturals, Sequences, FiniteSets

\* Number of inbound requests the model follows.
MaxRequests == 3

Req == 1 .. MaxRequests

\* What an inbound request may carry (request line, query string, body).
Inputs == { "GET /health", "GET /health?verbose=1 body={x}" }

\* ----- state ------------------------------------------------------------

VARIABLES
    pc,        \* per request: idle, received, returned (health came back),
               \* created (future of health_handler, not yet polled), pending
               \* (future suspended at an .await), ready (future resolved),
               \* dropped (future dropped before it resolved), panicked, replied
    via,       \* per request: which handler served it: none, health, health_handler
    input,     \* per request: what the inbound request carried
    result,    \* per request: the &'static str the handler gave (when it has)
    polls,     \* per request: how often its future was polled
    response,  \* per request: the HTTP response sent (when pc is replied)
    order,     \* history: the handler body that ran n-th has order n (0: not run)
    during     \* history: how many other requests were in flight when the body ran

vars == << pc, via, input, result, polls, response, order, during >>

\* A request is in flight from its receipt until its handler has finished.
InFlight == { "received", "created", "pending" }

\* The handler gave its value (the response may already be sent).
Succeeded == { "returned", "ready", "replied" }

\* ----- the two handlers, as written in the source -----------------------

\* A Rust call either returns a value or unwinds; Return(v) is the first.
Return(v) == [ tag |-> "Return", value |-> v ]

\* Variants of health, each a slip the source could have made; the
\* properties below are checked to tell every one of them from the source.
\* The compact JSON text instead of the spaced one.
health_compact ==
    Return(<< "{", "\"", "s", "t", "a", "t", "u", "s", "\"", ":",
              "\"", "o", "k", "\"", "}" >>)

\* A body that can unwind (an unwrap, an index out of range).
health_panics == [ tag |-> "Panic" ]

\* A body that reads a static call counter: the first call differs from the rest.
health_counting ==
    IF \E s \in Req : order[s] > 0
      THEN Return(<< "{", " ", "\"", "s", "t", "a", "t", "u", "s", "\"", ":", " ",
                     "\"", "u", "p", "\"", " ", "}" >>)
      ELSE Return(<< "{", " ", "\"", "s", "t", "a", "t", "u", "s", "\"", ":", " ",
                     "\"", "o", "k", "\"", " ", "}" >>)

\* health.rs:2-4   pub fn health() -> &'static str { "{ \"status\": \"ok\" }" }
health ==
    Return(<< "{", " ", "\"", "s", "t", "a", "t", "u", "s", "\"", ":", " ",
              "\"", "o", "k", "\"", " ", "}" >>)

\* Variants of health_handler.
\* The body is built in a buffer shared by the requests in flight: with two
\* or more of them the text comes out cut.
health_handler_racy ==
    [ awaits |-> 0,
      body   |-> IF Cardinality({ s \in Req : pc[s] \in InFlight }) >= 2
                   THEN Return(<< "{", " ", "\"", "s", "t", "a", "t", "u", "s", "\"" >>)
                   ELSE Return(<< "{", " ", "\"", "s", "t", "a", "t", "u", "s", "\"",
                                  ":", " ", "\"", "o", "k", "\"", " ", "}" >>) ]

\* The compact JSON text instead of the spaced one.
health_handler_compact ==
    [ awaits |-> 0,
      body   |-> Return(<< "{", "\"", "s", "t", "a", "t", "u", "s", "\"", ":",
                           "\"", "o", "k", "\"", "}" >>) ]

\* The duplicate drifted from the original: another status word.
health_handler_diverged ==
    [ awaits |-> 0,
      body   |-> Return(<< "{", " ", "\"", "s", "t", "a", "t", "u", "s", "\"",
                           ":", " ", "\"", "u", "p", "\"", " ", "}" >>) ]

\* The body awaits something (a probe, a lock) before it answers.
health_handler_awaits ==
    [ awaits |-> 1,
      body   |-> Return(<< "{", " ", "\"", "s", "t", "a", "t", "u", "s", "\"",
                           ":", " ", "\"", "o", "k", "\"", " ", "}" >>) ]

\* health.rs:6-9   pub async fn health_handler() -> &'static str: a future
\* whose body holds no .await (awaits = 0) and ends in the same literal.
health_handler ==
    [ awaits |-> 0,
      body   |-> Return(<< "{", " ", "\"", "s", "t", "a", "t", "u", "s", "\"",
                           ":", " ", "\"", "o", "k", "\"", " ", "}" >>) ]

\* ----- initial state -----------------------------------------------------

NoResponse == [ status |-> 0, content_type |-> "", body |-> << >> ]

Init ==
    /\ pc = [ r \in Req |-> "idle" ]
    /\ via = [ r \in Req |-> "none" ]
    /\ input = [ r \in Req |-> "" ]
    /\ result = [ r \in Req |-> << >> ]
    /\ polls = [ r \in Req |-> 0 ]
    /\ response = [ r \in Req |-> NoResponse ]
    /\ order = [ r \in Req |-> 0 ]
    /\ during = [ r \in Req |-> 0 ]

\* ----- the hosting side: a request arrives, a response leaves -----------

\* An inbound request carrying i is received.  Requests are numbered in the
\* order of their arrival; they are served in any order.
Receive(r, i) ==
    /\ pc[r] = "idle"
    /\ \A s \in Req : s < r => pc[s] # "idle"
    /\ pc' = [ pc EXCEPT ![r] = "received" ]
    /\ input' = [ input EXCEPT ![r] = i ]
    /\ UNCHANGED << via, result, polls, response, order, during >>

\* Variants of Respond: a wrong status, and the label a bare string gets
\* when nothing sets the content type.
RespondServerError(body) ==
    [ status |-> 500, content_type |-> "application/json", body |-> body ]

RespondTextPlain(body) ==
    [ status |-> 200, content_type |-> "text/plain; charset=utf-8", body |-> body ]

\* The route's response for a handler value: GET /health -> 200 OK,
\* Content-Type: application/json, the handler's string as the body.
Respond(body) ==
    [ status |-> 200, content_type |-> "application/json", body |-> body ]

Reply(r) ==
    /\ pc[r] \in { "returned", "ready" }
    /\ response' = [ response EXCEPT ![r] = Respond(result[r]) ]
    /\ pc' = [ pc EXCEPT ![r] = "replied" ]
    /\ UNCHANGED << via, input, result, polls, order, during >>

\* ----- running a handler ------------------------------------------------

\* The handler body of request r runs to its end with outcome out: the value
\* becomes r's result (okpc), or the call unwinds.  Nothing of the request
\* or of the process is read.
RunBody(r, out, okpc) ==
    /\ pc' = [ pc EXCEPT ![r] = IF out.tag = "Return" THEN okpc ELSE "panicked" ]
    /\ result' = [ result EXCEPT ![r] = IF out.tag = "Return" THEN out.value ELSE << >> ]
    /\ order' = [ order EXCEPT ![r] = Cardinality({ s \in Req : order[s] > 0 }) + 1 ]
    /\ during' = [ during EXCEPT ![r] = Cardinality({ s \in Req \ {r} : pc[s] \in InFlight }) ]

\* Variant of CallHealth: the handler echoes what the request carried.
CallHealthEcho(r) ==
    /\ pc[r] = "received"
    /\ via' = [ via EXCEPT ![r] = "health" ]
    /\ RunBody(r, Return(<< "{", input[r], "}" >>), "returned")
    /\ UNCHANGED << input, polls, response >>

\* health(): an ordinary call, the body runs at once.
CallHealth(r) ==
    /\ pc[r] = "received"
    /\ via' = [ via EXCEPT ![r] = "health" ]
    /\ RunBody(r, health, "returned")
    /\ UNCHANGED << input, polls, response >>

\* health_handler(): calling an async fn only builds its future.
CallHealthHandler(r) ==
    /\ pc[r] = "received"
    /\ via' = [ via EXCEPT ![r] = "health_handler" ]
    /\ pc' = [ pc EXCEPT ![r] = "created" ]
    /\ UNCHANGED << input, result, polls, response, order, during >>

\* The executor polls the future: it runs to its next .await (Pending) or,
\* with none left, to the end of the body (Ready).
Poll(r) ==
    /\ pc[r] \in { "created", "pending" }
    /\ polls' = [ polls EXCEPT ![r] = @ + 1 ]
    /\ IF polls[r] < health_handler.awaits
         THEN /\ pc' = [ pc EXCEPT ![r] = "pending" ]
              /\ UNCHANGED << result, order, during >>
         ELSE RunBody(r, health_handler.body, "ready")
    /\ UNCHANGED << via, input, response >>

\* The future is dropped before it resolved (the request was cancelled).
Drop(r) ==
    /\ pc[r] \in { "created", "pending" }
    /\ pc' = [ pc EXCEPT ![r] = "dropped" ]
    /\ UNCHANGED << via, input, result, polls, response, order, during >>

Next ==
    \E r \in Req :
        \/ \E i \in Inputs : Receive(r, i)
        \/ CallHealth(r)
        \/ CallHealthHandler(r)
        \/ Poll(r)
        \/ Drop(r)
        \/ Reply(r)

Spec == Init /\ [][Next]_vars

\* ----- the texts the properties speak of --------------------------------

\* { "status": "ok" }   the literal with its inner spaces, 18 characters
SpacedLiteral ==
    << "{", " ", "\"", "s", "t", "a", "t", "u", "s", "\"", ":", " ",
       "\"", "o", "k", "\"", " ", "}" >>

\* {"status":"ok"}   the compact form, 15 characters
CompactLiteral ==
    << "{", "\"", "s", "t", "a", "t", "u", "s", "\"", ":",
       "\"", "o", "k", "\"", "}" >>

\* A JSON text without its insignificant whitespace: the spaces outside the
\* string literals are dropped, those inside are kept.
RECURSIVE StripFrom(_, _, _)
StripFrom(s, i, inString) ==
    IF i > Len(s) THEN << >>
    ELSE IF s[i] = "\"" THEN << s[i] >> \o StripFrom(s, i + 1, ~inString)
    ELSE IF s[i] = " " /\ ~inString THEN StripFrom(s, i + 1, inString)
    ELSE << s[i] >> \o StripFrom(s, i + 1, inString)

Compact(s) == StripFrom(s, 1, FALSE)

\* The spaced literal without its insignificant whitespace.
SpacedCompacted == Compact(SpacedLiteral)

\* The handler of request r has given its value.
Done(r) == pc[r] \in Succeeded

\* ----- properties -------------------------------------------------------

\* C1: every invocation, of health and of health_handler alike, whatever the
\* number and order of the invocations, returns exactly the literal
\* { "status": "ok" } with its inner spaces.
C1_BodyIsSpacedLiteral ==
    \A r \in Req : Done(r) => result[r] = SpacedLiteral

\* Both handlers have answered, each with the spaced literal.
C1_Witness ==
    \E r, s \in Req :
        /\ via[r] = "health" /\ Done(r) /\ result[r] = SpacedLiteral
        /\ via[s] = "health_handler" /\ Done(s) /\ result[s] = SpacedLiteral

\* C2: every response sent for the health handler carries HTTP status 200.
C2_StatusAlways200 ==
    \A r \in Req : pc[r] = "replied" => response[r].status = 200

\* Responses were sent for a health call and for a health_handler call.
C2_Witness ==
    \E r, s \in Req :
        /\ pc[r] = "replied" /\ via[r] = "health" /\ response[r].status = 200
        /\ pc[s] = "replied" /\ via[s] = "health_handler" /\ response[s].status = 200

\* C3: concurrent invocations do not interfere: two calls whose bodies ran
\* with different numbers of other calls in flight, or after different numbers
\* of completed calls, return identical output.
C3_NoInterference ==
    \A r, s \in Req :
        ( /\ Done(r) /\ Done(s)
          /\ << during[r], order[r] >> # << during[s], order[s] >> )
        => result[r] = result[s]

\* One call answered while two others were in flight, another answered alone.
C3_Witness ==
    \E r, s \in Req :
        /\ Done(r) /\ during[r] >= 2
        /\ Done(s) /\ during[s] = 0
        /\ result[r] = result[s]

\* C4 as stated: a GET /health request yields status 200, the compact body
\* {"status":"ok"} and content type application/json.
C4_GetHealthCompactBody ==
    \A r \in Req :
        pc[r] = "replied"
        => response[r] = [ status |-> 200, content_type |-> "application/json",
                           body |-> CompactLiteral ]

\* C4 as amended: a GET /health request yields status 200, content type
\* application/json and the spaced body { "status": "ok" }, which is not the
\* compact text and becomes it only once the spaces outside its strings are removed.
C4_GetHealthSpacedBody ==
    \A r \in Req :
        pc[r] = "replied"
        => /\ response[r] = [ status |-> 200, content_type |-> "application/json",
                              body |-> SpacedLiteral ]
           /\ SpacedLiteral # CompactLiteral
           /\ SpacedCompacted = CompactLiteral

\* A response was sent, and its body is 18 characters long, not 15.
C4_Witness ==
    \E r \in Req :
        /\ pc[r] = "replied"
        /\ Len(response[r].body) = 18
        /\ Len(Compact(response[r].body)) = 15

\* C5: every response the handler's route produces is labelled
\* application/json, together with status 200 and the handler's body.
C5_LabelledJson ==
    \A r \in Req :
        pc[r] = "replied"
        => /\ response[r].content_type = "application/json"
           /\ response[r].status = 200
           /\ response[r].body = result[r]

\* A health_handler call was answered with a labelled response.
C5_Witness ==
    \E r \in Req :
        /\ pc[r] = "replied" /\ via[r] = "health_handler"
        /\ response[r].content_type = "application/json"

\* C6: the handler has no failure path: no invocation ends in an error, and
\* every invocation whose body ran ended in the success value.
C6_NoFailurePath ==
    \A r \in Req :
        /\ pc[r] # "panicked"
        /\ order[r] > 0 => Done(r)

\* The body ran for every request, through both handlers, and none failed.
C6_Witness ==
    /\ \A r \in Req : order[r] > 0 /\ Done(r)
    /\ \E r, s \in Req : via[r] = "health" /\ via[s] = "health_handler"

\* The step in which the handler body of request r runs.
BodyRuns(r) == order[r] = 0 /\ order'[r] > 0

\* C7: an invocation has no side effects: the step that runs the body of a
\* request leaves every other request as it was and the request's own input
\* untouched, and the result of the n-th call equals the result of the first.
C7_NoSideEffects ==
    [][ \A r \in Req :
          BodyRuns(r)
          => /\ \A s \in Req \ {r} :
                   /\ pc'[s] = pc[s] /\ via'[s] = via[s] /\ input'[s] = input[s]
                   /\ result'[s] = result[s] /\ polls'[s] = polls[s]
                   /\ response'[s] = response[s]
             /\ input'[r] = input[r]
             /\ \A s \in Req : (order[s] = 1 /\ Done(s)) => result'[r] = result[s]
      ]_vars

\* The third call has answered, as the first did.
C7_Witness ==
    \E r, s \in Req :
        /\ order[s] = 1 /\ Done(s)
        /\ order[r] = 3 /\ Done(r) /\ result[r] = result[s]

\* C8: every invocation completes and health_handler never suspends: no
\* future is ever pending, a future that was polled at all was polled once
\* and is resolved, a dropped future had not started (so nothing is left
\* half-done), and a call that has not finished can always take its
\* finishing step.
C8_NeverSuspends ==
    \A r \in Req :
        /\ pc[r] # "pending"
        /\ polls[r] > 0 => (polls[r] = 1 /\ pc[r] \in { "ready", "replied" })
        /\ pc[r] = "dropped" => (polls[r] = 0 /\ order[r] = 0)
        /\ pc[r] = "created" => ENABLED Poll(r)
        /\ pc[r] = "received" => ENABLED CallHealth(r)

\* One future resolved on its first poll, another was dropped unpolled.
C8_Witness ==
    \E r, s \in Req :
        /\ pc[r] = "ready" /\ polls[r] = 1
        /\ pc[s] = "dropped" /\ polls[s] = 0

\* C9: the two handlers are observationally equivalent: the value health
\* returns equals the value health_handler resolves to.
C9_HandlersEquivalent ==
    \A r, s \in Req :
        (via[r] = "health" /\ Done(r) /\ via[s] = "health_handler" /\ Done(s))
        => result[r] = result[s]

\* health has returned and a health_handler future has resolved.
C9_Witness ==
    \E r, s \in Req :
        /\ via[r] = "health" /\ pc[r] = "returned"
        /\ via[s] = "health_handler" /\ pc[s] = "ready"

\* C10: the handler consumes no input: two requests served by the same
\* handler that differ in what they carried get the same result.
C10_InputIgnored ==
    \A r, s \in Req :
        (Done(r) /\ Done(s) /\ via[r] = via[s] /\ input[r] # input[s])
        => result[r] = result[s]

\* Two requests with different content were served by the same handler.
C10_Witness ==
    \E r, s \in Req :
        /\ Done(r) /\ Done(s)
        /\ via[r] = "health" /\ via[s] = "health"
        /\ input[r] # input[s]

====
